---------------------------- MODULE Spec2Model ----------------------------
(***************************************************************************)
(* Model of the dynamic gRPC introspection commands of lens                *)
(* (src/cmd/dynamic.go, first package block, lines 1-563) and of           *)
(* ChainNotFoundError (src/cmd/errors_test.go, second package block), and   *)
(* of byop.Module.RegisterInterfaces (src/byop/module.go).                 *)
(*                                                                         *)
(* Strings that the code splits or compares byte-wise are sequences:       *)
(*   - service and method names are sequences of one-character strings,    *)
(*     "." being the namespace separator;                                  *)
(*   - chain names of ChainNotFoundError are sequences of byte values.     *)
(***************************************************************************)
EXTENDS Integers, Sequences, FiniteSets, TLC

VARIABLES
    \* the invocation: command, positional arguments, flags, registry
    cmdName, args, addrFlag, serviceFlag, methodFlag, chains,
    \* the caller's context
    ctxDone,
    \* position in the handler and its locals
    pc, gRPCAddr, serviceName, methodName, err, services, svcIdx, svcDesc, mDesc,
    \* the scoped resources, the output stream, the returned value, the event log
    conn, client, deferred, out, result, trace,
    \* the type graph walker (walkMessageType) and its accumulator
    fields, s, stack, walkRet, walked, expanded,
    \* ChainNotFoundError.Error()
    errOrder, errMsg,
    \* byop.Module: the sync.Once objects (done flag, mutex), the goroutines
    \* calling RegisterInterfaces, the registries
    done, mutex, opc, registryOf, panicked, registered, implementations

inputVars == <<cmdName, args, addrFlag, serviceFlag, methodFlag, chains>>
localVars == <<gRPCAddr, serviceName, methodName, err, services, svcIdx, svcDesc, mDesc>>
resVars   == <<conn, client, deferred, out, result, trace>>
walkVars  == <<fields, s, stack, walkRet, walked, expanded>>
errVars   == <<errOrder, errMsg>>
onceVars  == <<done, mutex, opc, registryOf, panicked, registered, implementations>>
cmdVars == <<inputVars, ctxDone, pc, localVars, resVars, walkVars, errVars>>
vars == <<cmdVars, onceVars>>

-----------------------------------------------------------------------------
(* Bounds of the model *)

\* total number of fields over all message types of an enumerated type graph
MaxTotalFields == 3

\* number of chains of an enumerated registry (ChainNotFoundError)
MaxChains == 3

\* RegisterInterfaces calls in one run, each on its own goroutine
MaxCalls == 3

-----------------------------------------------------------------------------
(* byop.Module: the values NewModule builds *)

Goroutines == 1..MaxCalls
Registries == {"r1", "r2"}

\* the sync.Once NewModule allocates, and one address per goroutine for a
\* guard that a copy of the Module would own
SharedOnce == 0
OnceAddrs  == {SharedOnce} \cup Goroutines

\* the proto messages handed to NewModule
Messages == {"MsgSend"}

\* "NewModule(moduleName, msgs...)": a fresh, unused sync.Once behind the
\* pointer, no call under way, nothing registered
NewModule ==
    /\ done = [a \in OnceAddrs |-> 0]
    /\ mutex = [a \in OnceAddrs |-> 0]
    /\ opc = [g \in Goroutines |-> "idle"]
    /\ registryOf = [g \in Goroutines |-> ""]
    /\ panicked = {}
    /\ registered = <<>>
    /\ implementations = [r \in Registries |-> {}]

-----------------------------------------------------------------------------
(* Descriptors *)

Msgs  == {"A", "B", "C"}
Enums == {"E"}

Nil == [kind |-> "nil", fqn |-> ""]
MsgDesc(n)  == [kind |-> "message", fqn |-> n]
EnumDesc(n) == [kind |-> "enum", fqn |-> n]

\* desc.Descriptor.GetFullyQualifiedName
GetFullyQualifiedName(d) == d.fqn

\* desc.Descriptor.GetFile().GetFullyQualifiedName()
GetFile(d) == IF d.kind = "enum" THEN "enums.proto" ELSE "msgs.proto"

\* a field of a message: scalar, message-typed or enum-typed
FieldChoices ==
    {[type |-> "TYPE_STRING", ref |-> ""]}
    \cup {[type |-> "TYPE_MESSAGE", ref |-> m] : m \in Msgs}
    \cup {[type |-> "TYPE_ENUM", ref |-> e] : e \in Enums}

FieldNames == <<"f1", "f2", "f3", "f4", "f5", "f6", "f7", "f8">>

Named(fs) == [i \in 1..Len(fs) |-> [name |-> FieldNames[i], type |-> fs[i].type, ref |-> fs[i].ref]]

\* FieldDescriptor.GetMessageType: nil unless the field is message-typed
GetMessageType(f) == IF f.type = "TYPE_MESSAGE" THEN MsgDesc(f.ref) ELSE Nil

\* a GetEnumType that never finds an enum type
GetEnumTypeNever(f) == Nil

\* FieldDescriptor.GetEnumType: nil unless the field is enum-typed
GetEnumType(f) == IF f.type = "TYPE_ENUM" THEN EnumDesc(f.ref) ELSE Nil

\* MessageDescriptor.GetFields, in declaration order
GetFields(m) == fields[m]

-----------------------------------------------------------------------------
(* The invocation's inputs and the remote endpoint *)

Commands == {"list-services", "list-methods", "show-messages", "inspect"}

\* the value of --address, and the address the registry holds for "hub"
Addr    == "example.com:9090"
HubAddr == "hub.example.com:9090"

\* chain identifiers: "hub" has an address, "ng" has an entry without one,
\* "zz" has no entry
Hub     == <<"h", "u", "b">>
NoGRPC  == <<"n", "g">>
Unknown == <<"z", "z">>

\* service names: p.A and p.R are served, p.Z is not
SvcAlpha   == <<"p", ".", "A">>
SvcReflect == <<"p", ".", "R">>
SvcAbsent  == <<"p", ".", "Z">>

MGet    == <<"G", "e", "t">>
MPut    == <<"P", "u", "t">>
MDelete == <<"D", "e", "l">>
MInfo   == <<"I", "n", "f", "o">>
MNope   == <<"N", "o", "p", "e">>

\* qualified method names: p.A.Get, p.A.Nope, and NoDot
QGet  == SvcAlpha \o <<".">> \o MGet
QNope == SvcAlpha \o <<".">> \o MNope
NoDot == <<"N", "o", "D", "o", "t">>

ArgChoices == {Hub, NoGRPC, Unknown, SvcAlpha, SvcAbsent, QGet, QNope, NoDot}

\* a method without descriptor (FindMethodByName found nothing)
NilMethod == [name |-> <<>>, inType |-> "", outType |-> ""]

AlphaDesc ==
    [kind |-> "service", fqn |-> SvcAlpha,
     methods |-> <<[name |-> MGet, inType |-> "A", outType |-> "B"],
                   [name |-> MPut, inType |-> "C", outType |-> "C"],
                   [name |-> MDelete, inType |-> "B", outType |-> "A"]>>]

ReflectDesc ==
    [kind |-> "service", fqn |-> SvcReflect,
     methods |-> <<[name |-> MInfo, inType |-> "C", outType |-> "C"]>>]

\* the services the endpoint can resolve
Catalog == {AlphaDesc, ReflectDesc}

\* the message types of the endpoint: A and B refer to each other
CatalogFields ==
    [m \in Msgs |->
        IF m = "A" THEN Named(<<[type |-> "TYPE_STRING", ref |-> ""],
                                [type |-> "TYPE_MESSAGE", ref |-> "B"],
                                [type |-> "TYPE_ENUM", ref |-> "E"]>>)
        ELSE IF m = "B" THEN Named(<<[type |-> "TYPE_MESSAGE", ref |-> "A"],
                                     [type |-> "TYPE_MESSAGE", ref |-> "C"]>>)
        ELSE Named(<<[type |-> "TYPE_STRING", ref |-> ""]>>)]

\* what a list-services call may return
ServiceListChoices ==
    {<<SvcAlpha, SvcReflect>>, <<SvcReflect, SvcAlpha>>, <<SvcReflect>>, <<>>}

\* the registry a.Config.Chains
RegistryChoices ==
    {[k \in {Hub, NoGRPC} |-> [GRPCAddr |-> IF k = Hub THEN HubAddr ELSE ""]],
     [k \in {} |-> [GRPCAddr |-> ""]]}

-----------------------------------------------------------------------------
(* sources: a slice of descriptors *)

\* a Contains that looks only at the most recently appended descriptor
ContainsLastOnly(src, d) ==
    /\ Len(src) > 0
    /\ GetFullyQualifiedName(src[Len(src)]) = GetFullyQualifiedName(d)

\* sources.Contains
Contains(src, d) ==
    \E i \in 1..Len(src) : GetFullyQualifiedName(src[i]) = GetFullyQualifiedName(d)

-----------------------------------------------------------------------------
(* Output stream, returned values, deferred calls *)

NL == [t |-> "nl", v |-> <<>>]

\* fmt.Fprintln(cmd.OutOrStdout(), x): the operand, then a newline
Fprintln(w, x) == w \o <<x, NL>>

Str(x)          == [t |-> "str", v |-> x]
Comment(parts)  == [t |-> "comment", v |-> parts]
\* protoprint.Printer.PrintProtoToString: the canonical text of a descriptor
Proto(d)        == [t |-> "proto", v |-> d]

Ok         == [kind |-> "nil"]
Err(k, a)  == [kind |-> k, arg |-> a]

\* a call on the connection or the client: what was called, with what, and
\* what it returned
Event(e, a, r) == [ev |-> e, arg |-> a, res |-> r]
Success(v) == [ok |-> TRUE, val |-> v]
Failure(e) == [ok |-> FALSE, val |-> e]

\* "proto, err := pp.PrintProtoToString(d)": the call and whether it returned
\* the text or an error
Render(d, renders) ==
    Event("PrintProtoToString", d,
          IF renders THEN Success("") ELSE Failure(Err("render", d.fqn)))

Reverse(q) == [i \in 1..Len(q) |-> q[Len(q) + 1 - i]]

\* Go runs the deferred calls of a function last-registered-first, on return
\* and while panicking alike
RunDeferred == Reverse(deferred)

\* the function returns r (or panics with r) after the calls logged in tr:
\* deferred calls run, the handler ends
Return(r, tr) ==
    /\ result' = r
    /\ pc' = "done"
    /\ trace' = tr \o [i \in 1..Len(deferred) |-> Event(RunDeferred[i], "", Success(""))]
    /\ conn' = IF \E i \in 1..Len(deferred) : deferred[i] = "conn.Close"
               THEN "closed" ELSE conn
    /\ client' = IF \E i \in 1..Len(deferred) : deferred[i] = "c.Reset"
                 THEN "reset" ELSE client
    /\ deferred' = <<>>

-----------------------------------------------------------------------------
(* walkMessageType, one loop iteration per step; the call stack is explicit *)

Top == stack[Len(stack)]

Advance(st) == [st EXCEPT ![Len(st)].idx = @ + 1]

\* walkMessageType(msgDesc, s) is entered for the root msgDesc
EnterWalk(root, ret) ==
    /\ stack' = <<[msg |-> root, idx |-> 1]>>
    /\ walked' = Append(walked, root)
    /\ walkRet' = ret
    /\ pc' = "walk"

\* one iteration of "for _, fDesc := range msgDesc.GetFields()"
WalkField ==
    /\ pc = "walk"
    /\ stack # <<>>
    /\ Top.idx <= Len(GetFields(Top.msg))
    /\ LET fDesc == GetFields(Top.msg)[Top.idx]
           md    == GetMessageType(fDesc)
           ed    == GetEnumType(fDesc)
       IN  IF md # Nil
           THEN IF ~Contains(s, md)
                THEN /\ s' = Append(s, md)
                     /\ stack' = Append(Advance(stack), [msg |-> md.fqn, idx |-> 1])
                     /\ expanded' = [expanded EXCEPT ![md.fqn] = @ + 1]
                ELSE /\ stack' = Advance(stack)
                     /\ UNCHANGED <<s, expanded>>
           ELSE IF ed # Nil
           THEN /\ s' = IF ~Contains(s, ed) THEN Append(s, ed) ELSE s
                /\ stack' = Advance(stack)
                /\ UNCHANGED expanded
           ELSE /\ stack' = Advance(stack)
                /\ UNCHANGED <<s, expanded>>
    /\ UNCHANGED <<inputVars, ctxDone, pc, localVars, resVars, fields, walkRet, walked, errVars, onceVars>>

\* "return s": the innermost call returns to its caller
WalkReturn ==
    /\ pc = "walk"
    /\ stack # <<>>
    /\ Top.idx > Len(GetFields(Top.msg))
    /\ stack' = SubSeq(stack, 1, Len(stack) - 1)
    /\ pc' = IF Len(stack) = 1 THEN walkRet ELSE pc
    /\ UNCHANGED <<inputVars, ctxDone, localVars, resVars, fields, s, walkRet, walked, expanded, errVars, onceVars>>

-----------------------------------------------------------------------------
(* dynamicInspect, from "var s sources" to the end *)

\* "if inType := mDesc.GetInputType(); inType != nil { ... }"
InspectInType ==
    /\ pc = "inType"
    /\ \E renders \in BOOLEAN :
         /\ trace' = IF mDesc.inType # ""
                      THEN Append(trace, Render(MsgDesc(mDesc.inType), renders))
                      ELSE trace
         /\ IF mDesc.inType # "" /\ renders
            THEN /\ out' = Fprintln(Fprintln(out, Comment(<<GetFile(MsgDesc(mDesc.inType))>>)),
                                    Proto(MsgDesc(mDesc.inType)))
                 /\ EnterWalk(mDesc.inType, "outType")
            ELSE /\ pc' = "outType"
                 /\ UNCHANGED <<out, stack, walked, walkRet>>
    /\ UNCHANGED <<inputVars, ctxDone, localVars, conn, client, deferred, result,
                   fields, s, expanded, errVars, onceVars>>

\* "if outType := mDesc.GetOutputType(); outType != nil { ... }"
InspectOutType ==
    /\ pc = "outType"
    /\ \E renders \in BOOLEAN :
         /\ trace' = IF mDesc.outType # ""
                      THEN Append(trace, Render(MsgDesc(mDesc.outType), renders))
                      ELSE trace
         /\ IF mDesc.outType # "" /\ renders
            THEN /\ out' = Fprintln(Fprintln(out, Comment(<<GetFile(MsgDesc(mDesc.outType))>>)),
                                    Proto(MsgDesc(mDesc.outType)))
                 /\ EnterWalk(mDesc.outType, "print")
            ELSE /\ pc' = "print"
                 /\ UNCHANGED <<out, stack, walked, walkRet>>
    /\ UNCHANGED <<inputVars, ctxDone, localVars, conn, client, deferred, result,
                   fields, s, expanded, errVars, onceVars>>

RECURSIVE PrintFrom(_, _, _, _)
\* sources.Print: the descriptors of src from index i on, skipping those
\* whose rendering fails (the indices outside renders)
PrintFrom(w, src, renders, i) ==
    IF i > Len(src) THEN w
    ELSE IF i \in renders
         THEN PrintFrom(Fprintln(w \o <<Comment(<<GetFullyQualifiedName(src[i]), GetFile(src[i])>>), NL>>,
                                 Proto(src[i])),
                        src, renders, i + 1)
         ELSE PrintFrom(w, src, renders, i + 1)

\* the PrintProtoToString calls of sources.Print, one per descriptor of src
PrintCalls(src, renders) == [i \in 1..Len(src) |-> Render(src[i], i \in renders)]

\* "s.Print(a.Log, cmd.OutOrStdout(), pp); return nil"
InspectPrint ==
    /\ pc = "print"
    /\ \E renders \in SUBSET (1..Len(s)) :
         /\ out' = PrintFrom(out, s, renders, 1)
         /\ Return(Ok, trace \o PrintCalls(s, renders))
    /\ UNCHANGED <<inputVars, ctxDone, localVars, walkVars, errVars, onceVars>>

-----------------------------------------------------------------------------
(* The walker over every small type graph: dynamicInspect at "var s sources" *)

LenChoices == {l \in [Msgs -> 0..MaxTotalFields] : l["A"] + l["B"] + l["C"] <= MaxTotalFields}

InitWalk ==
    /\ cmdName = "inspect" /\ args = <<>> /\ addrFlag = Addr
    /\ serviceFlag = SvcAlpha /\ methodFlag = MGet
    /\ chains = <<>>
    /\ ctxDone = FALSE
    /\ pc = "inType"
    /\ gRPCAddr = Addr /\ serviceName = SvcAlpha /\ methodName = MGet
    /\ err = Ok
    /\ services = <<>> /\ svcIdx = 0
    /\ svcDesc = AlphaDesc
    \* the enumerated graphs are closed under renaming of the message types, so
    \* the input type is "A" and the output type is the same type or another
    /\ \E o \in {"A", "B"} : mDesc = [name |-> MGet, inType |-> "A", outType |-> o]
    /\ conn = "open" /\ client = "open"
    /\ deferred = <<"conn.Close", "c.Reset">>
    /\ out = Fprintln(<<>>, Proto([kind |-> "method", fqn |-> MGet]))
    /\ result = Ok
    /\ trace = <<Event("dial", Addr, Success("")),
                 Event("ResolveService", SvcAlpha, Success(AlphaDesc)),
                 Render([kind |-> "method", fqn |-> MGet], TRUE)>>
    /\ \E l \in LenChoices :
         \E fa \in [1..l["A"] -> FieldChoices],
            fb \in [1..l["B"] -> FieldChoices],
            fc \in [1..l["C"] -> FieldChoices] :
              fields = [m \in Msgs |-> IF m = "A" THEN Named(fa)
                                       ELSE IF m = "B" THEN Named(fb) ELSE Named(fc)]
    /\ s = <<>> /\ stack = <<>> /\ walkRet = "" /\ walked = <<>>
    /\ expanded = [m \in Msgs |-> 0]
    /\ errOrder = <<>> /\ errMsg = <<>>
    /\ NewModule

NextWalk == InspectInType \/ WalkField \/ WalkReturn \/ InspectOutType \/ InspectPrint

SpecWalk == InitWalk /\ [][NextWalk]_vars

FairSpecWalk == SpecWalk /\ WF_vars(NextWalk)

-----------------------------------------------------------------------------
(* Claims about the type graph walker *)

Names(src) == {src[i].fqn : i \in 1..Len(src)}

Refs(a, b) == \E i \in 1..Len(fields[a]) : fields[a][i].type # "TYPE_STRING" /\ fields[a][i].ref = b

WalkFinished == pc \in {"print", "done"}

\* C2: at every moment of the walk over the input root and then the output
\* root, which share one accumulator, no two descriptors of the accumulated
\* sequence have the same fully-qualified name.
C2_NoDuplicateNames ==
    \A i, j \in 1..Len(s) : i # j => s[i].fqn # s[j].fqn

\* both roots were walked over a graph in which a message has a field of its
\* own type, that message was emitted, and at least two types were emitted
C2_Witness ==
    /\ pc = "print"
    /\ Len(walked) = 2
    /\ Len(s) >= 2
    /\ \E m \in Msgs : Refs(m, m) /\ m \in Names(s)

\* C3: the walk terminates on every finite type graph, cyclic ones included,
\* and no message type is expanded more than once as a non-root.
C3_TerminatesExpandingOnce ==
    /\ [](\A m \in Msgs : expanded[m] <= 1)
    /\ <>(pc = "done")

\* the walk over two mutually recursive messages has ended, each of them
\* expanded once as a non-root
C3_Witness ==
    /\ pc = "done"
    /\ \E a, b \in Msgs :
         /\ a # b /\ Refs(a, b) /\ Refs(b, a)
         /\ expanded[a] = 1 /\ expanded[b] = 1

RECURSIVE DFSFields(_, _)
\* depth-first pre-order, first-discovery order over a list of fields: an
\* unvisited message type is emitted and its subtree explored before the
\* next field, an unvisited enum is emitted, a scalar contributes nothing
DFSFields(fs, acc) ==
    IF fs = <<>> THEN acc
    ELSE LET f == Head(fs)
         IN  IF f.type = "TYPE_STRING" \/ f.ref \in Names(acc)
             THEN DFSFields(Tail(fs), acc)
             ELSE IF f.type = "TYPE_ENUM"
             THEN DFSFields(Tail(fs), Append(acc, [kind |-> "enum", fqn |-> f.ref]))
             ELSE DFSFields(Tail(fs),
                            DFSFields(fields[f.ref],
                                      Append(acc, [kind |-> "message", fqn |-> f.ref])))

RECURSIVE DFSRoots(_, _)
DFSRoots(roots, acc) ==
    IF roots = <<>> THEN acc
    ELSE DFSRoots(Tail(roots), DFSFields(fields[Head(roots)], acc))

Succ(S) == {t \in Msgs \cup Enums : \E m \in S \cap Msgs : Refs(m, t)}

RECURSIVE Closure(_)
Closure(S) == IF Succ(S) \subseteq S THEN S ELSE Closure(S \cup Succ(S))

\* the types reachable from the roots through at least one field
Reachable(roots) == Closure(Succ({roots[i] : i \in 1..Len(roots)}))

OnlyScalarFields(m) == \A i \in 1..Len(fields[m]) : fields[m][i].type = "TYPE_STRING"

\* C4: once the walks have returned, the accumulator is exactly the
\* depth-first pre-order, first-discovery sequence of the message and enum
\* types reachable through fields from the walked roots; it is empty when
\* the roots have only scalar fields.
C4_PreOrderFirstDiscovery ==
    pc \in {"outType", "print", "done"} =>
        /\ s = DFSRoots(walked, <<>>)
        /\ Names(s) = Reachable(walked)
        /\ (\A i \in 1..Len(walked) : OnlyScalarFields(walked[i])) => s = <<>>

\* one root with two non-scalar fields x, y: the type found under x was
\* emitted between x and y
C4_Witness ==
    /\ pc = "print"
    /\ Len(walked) = 1
    /\ Len(s) = 3
    /\ LET fs == fields[walked[1]]
       IN  /\ Len(fs) = 2
           /\ fs[1].ref = s[1].fqn
           /\ fs[2].ref = s[3].fqn
           /\ s[3].kind = "enum"
           /\ Refs(s[1].fqn, s[2].fqn)

-----------------------------------------------------------------------------
(* ChainNotFoundError.Error(); strings are sequences of byte values *)

\* "foo", "bar", "baz" (the registry of TestChainNotFoundError), "ba", "Bar"
ChainNameChoices ==
    {<<102, 111, 111>>, <<98, 97, 114>>, <<98, 97, 122>>, <<98, 97>>, <<66, 97, 114>>}

\* "x" and a"b
RequestedChoices == {<<120>>, <<97, 34, 98>>}

\* Go's < on strings: byte-wise lexicographic, a proper prefix first
StringLess(a, b) ==
    \E k \in 1..Len(b) :
        /\ \A j \in 1..(k - 1) : j <= Len(a) /\ a[j] = b[j]
        /\ (k > Len(a) \/ a[k] < b[k])

RECURSIVE InsertSorted(_, _)
InsertSorted(x, q) ==
    IF q = <<>> THEN <<x>>
    ELSE IF StringLess(x, Head(q)) THEN <<x>> \o q
    ELSE <<Head(q)>> \o InsertSorted(x, Tail(q))

RECURSIVE SortedFrom(_, _)
SortedFrom(q, acc) ==
    IF q = <<>> THEN acc ELSE SortedFrom(Tail(q), InsertSorted(Head(q), acc))

\* the names left in the order the map iteration produced them
SortStringsOmitted(q) == q

\* sort.Strings(available)
SortStrings(q) == SortedFrom(q, <<>>)

RECURSIVE Join(_, _)
\* strings.Join(elems, sep)
Join(elems, sep) ==
    IF elems = <<>> THEN <<>>
    ELSE IF Len(elems) = 1 THEN elems[1]
    ELSE elems[1] \o sep \o Join(Tail(elems), sep)

RECURSIVE Quote(_)
\* the body of %q: a double quote and a backslash are escaped by a backslash
Quote(str) ==
    IF str = <<>> THEN <<>>
    ELSE (IF Head(str) \in {34, 92} THEN <<92, Head(str)>> ELSE <<Head(str)>>)
         \o Quote(Tail(str))

\* fmt.Sprintf("no chain %q found (available chains: %s)", requested, list)
Sprintf(requested, list) ==
    <<110, 111, 32, 99, 104, 97, 105, 110, 32>>
    \o <<34>> \o Quote(requested) \o <<34>>
    \o <<32, 102, 111, 117, 110, 100, 32, 40, 97, 118, 97, 105, 108, 97, 98, 108, 101,
         32, 99, 104, 97, 105, 110, 115, 58, 32>>
    \o list
    \o <<41>>

\* the orders in which "for chainName := range e.Config.Chains" may run
IterationOrders(keys) ==
    {q \in [1..Cardinality(keys) -> keys] : \A i, j \in 1..Cardinality(keys) : i # j => q[i] # q[j]}

\* ChainNotFoundError.Error() when the map iteration produces order
ChainNotFoundErrorError(requested, order) ==
    Sprintf(requested, Join(SortStrings(order), <<44, 32>>))

\* e.Error() is called on a ChainNotFoundError
ErrorCall ==
    /\ pc = "error"
    /\ result.kind = "ChainNotFoundError"
    /\ \E order \in IterationOrders(DOMAIN chains) :
         /\ errOrder' = order
         /\ errMsg' = ChainNotFoundErrorError(result.arg, order)
    /\ pc' = "errorDone"
    /\ UNCHANGED <<inputVars, ctxDone, localVars, resVars, walkVars, onceVars>>

InitErr ==
    /\ cmdName = "" /\ args = <<>> /\ addrFlag = ""
    /\ serviceFlag = <<>> /\ methodFlag = <<>>
    /\ \E keys \in SUBSET ChainNameChoices :
         /\ Cardinality(keys) <= MaxChains
         /\ chains = [k \in keys |-> "nil"]
    /\ ctxDone = FALSE
    /\ pc = "error"
    /\ gRPCAddr = "" /\ serviceName = <<>> /\ methodName = <<>>
    /\ err = Ok
    /\ services = <<>> /\ svcIdx = 0
    /\ svcDesc = Nil /\ mDesc = NilMethod
    /\ conn = "none" /\ client = "none" /\ deferred = <<>>
    /\ out = <<>>
    /\ \E requested \in RequestedChoices : result = Err("ChainNotFoundError", requested)
    /\ trace = <<>>
    /\ fields = [m \in Msgs |-> <<>>]
    /\ s = <<>> /\ stack = <<>> /\ walkRet = "" /\ walked = <<>>
    /\ expanded = [m \in Msgs |-> 0]
    /\ errOrder = <<>> /\ errMsg = <<>>
    /\ NewModule

NextErr == ErrorCall

SpecErr == InitErr /\ [][NextErr]_vars

\* the one sequence listing keys once each in strictly ascending order
Ascending(keys) ==
    CHOOSE q \in IterationOrders(keys) :
        \A i \in 1..(Len(q) - 1) : StringLess(q[i], q[i + 1])

\* C8: whatever the registry holds and in whatever order the map is iterated,
\* the message lists every chain name exactly once, in ascending
\* lexicographic order, joined by ", "; the registry {foo, bar, baz} and the
\* request x give: no chain "x" found (available chains: bar, baz, foo).
C8_SortedChainNames ==
    pc = "errorDone" =>
        /\ errMsg = Sprintf(result.arg, Join(Ascending(DOMAIN chains), <<44, 32>>))
        /\ (/\ DOMAIN chains = {<<102, 111, 111>>, <<98, 97, 114>>, <<98, 97, 122>>}
            /\ result.arg = <<120>>)
           => errMsg = <<110, 111, 32, 99, 104, 97, 105, 110, 32, 34, 120, 34, 32,
                         102, 111, 117, 110, 100, 32, 40, 97, 118, 97, 105, 108, 97,
                         98, 108, 101, 32, 99, 104, 97, 105, 110, 115, 58, 32,
                         98, 97, 114, 44, 32, 98, 97, 122, 44, 32, 102, 111, 111, 41>>

\* the message was built for the registry {foo, bar, baz} iterated in the
\* order foo, bar, baz
C8_Witness ==
    /\ pc = "errorDone"
    /\ errOrder = <<<<102, 111, 111>>, <<98, 97, 114>>, <<98, 97, 122>>>>
    /\ result.arg = <<120>>

-----------------------------------------------------------------------------
(* The RunE closures: target resolution *)

\* only the "neither" half of the test
AmbiguousNeitherOnly(n) == addrFlag = "" /\ Len(args) = n

\* "(gRPCAddr != "" && len(args) > n) || (gRPCAddr == "" && len(args) == n)"
\* where n is the number of positional arguments other than CHAIN_ID
Ambiguous(n) ==
    \/ (addrFlag # "" /\ Len(args) > n)
    \/ (addrFlag = "" /\ Len(args) = n)

\* the empty-address test left out
AddrUnsetNever(a) == FALSE

\* "if gRPCAddr == """ after the registry lookup
AddrUnset(a) == a = ""

\* the address the command will dial, or the error it returns instead
Target(n) ==
    IF Ambiguous(n) THEN Failure(Err("exactlyOne", <<>>))
    ELSE IF addrFlag = ""
    THEN LET chainName == args[1]
         IN  IF chainName \notin DOMAIN chains
             THEN Failure(Err("ChainNotFoundError", args[1]))
             ELSE IF AddrUnset(chains[chainName].GRPCAddr)
             THEN Failure(Err("noGRPCAddr", chainName))
             ELSE Success(chains[chainName].GRPCAddr)
    ELSE Success(addrFlag)

\* "return dynamicX(cmd, a, gRPCAddr, ...)" or the early "return err"
Enter(target, svc, meth) ==
    IF target.ok
    THEN /\ gRPCAddr' = target.val
         /\ serviceName' = svc
         /\ methodName' = meth
         /\ pc' = "dial"
         /\ UNCHANGED <<conn, client, deferred, result, trace>>
    ELSE /\ Return(target.val, trace)
         /\ UNCHANGED <<gRPCAddr, serviceName, methodName>>

\* "path := args[0]; if len(args) > 1 { path = args[1] }"
LastArg == IF Len(args) > 1 THEN args[2] ELSE args[1]

ListServicesRunE ==
    /\ pc = "start" /\ cmdName = "list-services"
    /\ Enter(Target(0), <<>>, <<>>)
    /\ UNCHANGED <<inputVars, ctxDone, err, services, svcIdx, svcDesc, mDesc, out, walkVars, errVars, onceVars>>

ListMethodsRunE ==
    /\ pc = "start" /\ cmdName = "list-methods"
    /\ Enter(Target(1), LastArg, <<>>)
    /\ UNCHANGED <<inputVars, ctxDone, err, services, svcIdx, svcDesc, mDesc, out, walkVars, errVars, onceVars>>

ShowMessagesRunE ==
    /\ pc = "start" /\ cmdName = "show-messages"
    /\ Enter(Target(1), <<>>, LastArg)
    /\ UNCHANGED <<inputVars, ctxDone, err, services, svcIdx, svcDesc, mDesc, out, walkVars, errVars, onceVars>>

\* inspect takes the address from the flag alone and checks nothing
InspectRunE ==
    /\ pc = "start" /\ cmdName = "inspect"
    /\ Enter(Success(addrFlag), serviceFlag, methodFlag)
    /\ UNCHANGED <<inputVars, ctxDone, err, services, svcIdx, svcDesc, mDesc, out, walkVars, errVars, onceVars>>

-----------------------------------------------------------------------------
(* dialGRPC, the reflection client, the calls on it *)

\* the caller's context is cancelled
Cancel ==
    /\ pc \in {"start", "dial", "split", "client", "ls_list", "lm_resolve", "lm_list",
               "sm_resolve", "sm_list", "in_list", "in_loop", "in_resolve",
               "inType", "outType", "walk", "print"}
    /\ ~ctxDone
    /\ ctxDone' = TRUE
    /\ UNCHANGED <<inputVars, pc, localVars, resVars, walkVars, errVars, onceVars>>

Canceled == Err("Canceled", <<>>)

DialOutcomes == IF ctxDone THEN {Failure(Canceled)}
                ELSE {Success(""), Failure(Err("Unavailable", <<>>))}

\* c.ListServices()
ListOutcomes ==
    IF ctxDone THEN {Failure(Canceled)}
    ELSE {Failure(Err("Unavailable", <<>>))} \cup {Success(l) : l \in ServiceListChoices}

\* an earlier ResolveService of this client succeeded: the client keeps the
\* file descriptors it has fetched and answers from them without a round trip
HasCachedFiles ==
    \E i \in 1..Len(trace) : trace[i].ev = "ResolveService" /\ trace[i].res.ok

\* c.ResolveService(name)
ResolveOutcomes(name) ==
    (IF ctxDone THEN {Failure(Canceled)}
     ELSE {Failure(Err("ServiceNotFound", name)), Failure(Err("Unavailable", name))})
    \cup {Success(d) : d \in {c \in Catalog : c.fqn = name /\ (~ctxDone \/ HasCachedFiles)}}

\* the first statement of every dynamicX: "conn, err := dialGRPC(...)", then
\* "defer conn.Close()"
dialGRPC ==
    /\ pc = "dial"
    /\ \E r \in DialOutcomes :
         LET tr == Append(trace, Event("dial", gRPCAddr, r))
         IN  IF r.ok
             THEN /\ conn' = "open"
                  /\ deferred' = Append(deferred, "conn.Close")
                  /\ trace' = tr
                  /\ pc' = IF cmdName = "show-messages" THEN "split" ELSE "client"
                  /\ UNCHANGED <<client, result>>
             ELSE Return(Err("dialFailed", r.val), tr)
    /\ UNCHANGED <<inputVars, ctxDone, localVars, out, walkVars, errVars, onceVars>>

\* the deferred Reset left out
DeferResetOmitted(defs) == defs

\* "defer c.Reset()"
DeferReset(defs) == Append(defs, "c.Reset")

\* "stub := rpb.NewServerReflectionClient(conn); c := grpcreflect.NewClient(...)"
NewClient ==
    /\ pc = "client"
    /\ client' = "open"
    /\ deferred' = DeferReset(deferred)
    /\ pc' = IF cmdName = "list-services" THEN "ls_list"
             ELSE IF cmdName = "list-methods" THEN "lm_resolve"
             ELSE IF cmdName = "show-messages" THEN "sm_resolve"
             ELSE IF serviceName = <<>> THEN "in_list" ELSE "in_resolve"
    /\ UNCHANGED <<inputVars, ctxDone, localVars, conn, out, result, trace, walkVars, errVars, onceVars>>

RECURSIVE PrintAllButLast(_, _)
\* the loop stops one name early
PrintAllButLast(w, names) ==
    IF Len(names) <= 1 THEN w
    ELSE PrintAllButLast(Fprintln(w, Str(Head(names))), Tail(names))

RECURSIVE PrintAll(_, _)
\* "for _, s := range names { fmt.Fprintln(cmd.OutOrStdout(), s) }"
PrintAll(w, names) ==
    IF names = <<>> THEN w
    ELSE PrintAll(Fprintln(w, Str(Head(names))), Tail(names))

\* d.GetMethods() mapped to GetName(), in declaration order
MethodNames(d) == [i \in 1..Len(d.methods) |-> d.methods[i].name]

\* ServiceDescriptor.FindMethodByName
FindMethodByName(d, name) ==
    IF \E i \in 1..Len(d.methods) : d.methods[i].name = name
    THEN d.methods[CHOOSE i \in 1..Len(d.methods) : d.methods[i].name = name]
    ELSE NilMethod

\* strings.Contains(err.Error(), "Service not found")
IsServiceNotFound(e) == e.kind = "ServiceNotFound"

\* a GRPCServiceNotFoundError without the listed services
ServiceNotFoundNoList(requested, available) ==
    [kind |-> "GRPCServiceNotFoundError", Requested |-> requested, Available |-> <<>>]

\* GRPCServiceNotFoundError{Requested: serviceName, Available: services}
GRPCServiceNotFoundError(requested, available) ==
    [kind |-> "GRPCServiceNotFoundError", Requested |-> requested, Available |-> available]

\* a nil pointer is dereferenced: the goroutine panics, deferred calls run
Panic == Err("panic", <<>>)

-----------------------------------------------------------------------------
(* dynamicListServices *)

ListServicesCall ==
    /\ pc = "ls_list"
    /\ \E r \in ListOutcomes :
         LET tr == Append(trace, Event("ListServices", <<>>, r))
         IN  IF r.ok
             THEN /\ services' = r.val
                  /\ out' = PrintAll(out, r.val)
                  /\ Return(Ok, tr)
             ELSE /\ Return(Err("listFailed", r.val), tr)
                  /\ UNCHANGED <<services, out>>
    /\ UNCHANGED <<inputVars, ctxDone, gRPCAddr, serviceName, methodName, err, svcIdx,
                   svcDesc, mDesc, walkVars, errVars, onceVars>>

-----------------------------------------------------------------------------
(* dynamicListMethods and dynamicShowMessages *)

\* the fall-through returns the error of the list call
FallThroughListError(resolveErr, svcErr) == Err("resolveFailed", svcErr)

\* "return fmt.Errorf("failed to resolve service: %w", err)" reached with
\* svcErr != nil: err is still the error of ResolveService
FallThrough(resolveErr, svcErr) == Err("resolveFailed", resolveErr)

\* "services, svcErr := c.ListServices()" after a "Service not found", and the
\* return that follows
NotFoundRecovery ==
    /\ \E r \in ListOutcomes :
         LET tr == Append(trace, Event("ListServices", <<>>, r))
         IN  IF r.ok
             THEN /\ services' = r.val
                  /\ Return(GRPCServiceNotFoundError(serviceName, r.val), tr)
             ELSE /\ Return(FallThrough(err, r.val), tr)
                  /\ UNCHANGED services
    /\ UNCHANGED <<inputVars, ctxDone, gRPCAddr, serviceName, methodName, err, svcIdx,
                   svcDesc, mDesc, out, walkVars, errVars, onceVars>>

\* "d, err := c.ResolveService(serviceName)" failed with e
ResolveFailed(e, tr, recover) ==
    /\ err' = e
    /\ IF IsServiceNotFound(e)
       THEN /\ pc' = recover
            /\ trace' = tr
            /\ UNCHANGED <<conn, client, deferred, result>>
       ELSE Return(Err("resolveFailed", e), tr)
    /\ UNCHANGED <<svcDesc, out>>

ListMethodsResolve ==
    /\ pc = "lm_resolve"
    /\ \E r \in ResolveOutcomes(serviceName) :
         LET tr == Append(trace, Event("ResolveService", serviceName, r))
         IN  IF r.ok
             THEN /\ svcDesc' = r.val
                  /\ out' = PrintAll(out, MethodNames(r.val))
                  /\ Return(Ok, tr)
                  /\ UNCHANGED err
             ELSE ResolveFailed(r.val, tr, "lm_list")
    /\ UNCHANGED <<inputVars, ctxDone, gRPCAddr, serviceName, methodName, services, svcIdx,
                   mDesc, walkVars, errVars, onceVars>>

ListMethodsNotFound ==
    /\ pc = "lm_list"
    /\ NotFoundRecovery

RECURSIVE SplitFrom(_, _, _, _)
SplitFrom(str, sep, cur, parts) ==
    IF str = <<>> THEN Append(parts, cur)
    ELSE IF Head(str) = sep THEN SplitFrom(Tail(str), sep, <<>>, Append(parts, cur))
    ELSE SplitFrom(Tail(str), sep, Append(cur, Head(str)), parts)

\* strings.Split(str, sep) for a one-character separator
Split(str, sep) == SplitFrom(str, sep, <<>>, <<>>)

\* "serviceParts := strings.Split(method, "."); if len(serviceParts) == 1 ..."
ShowMessagesSplit ==
    /\ pc = "split"
    /\ LET serviceParts == Split(methodName, ".")
       IN  IF Len(serviceParts) = 1
           THEN /\ Return(Err("invalidMethod", methodName), trace)
                /\ UNCHANGED serviceName
           ELSE /\ serviceName' = Join(SubSeq(serviceParts, 1, Len(serviceParts) - 1), <<".">>)
                /\ pc' = "client"
                /\ UNCHANGED <<conn, client, deferred, result, trace>>
    /\ UNCHANGED <<inputVars, ctxDone, gRPCAddr, methodName, err, services, svcIdx, svcDesc,
                   mDesc, out, walkVars, errVars, onceVars>>

\* the type description of a field in the shallow summary
TypeName(f) == IF f.type = "TYPE_MESSAGE" THEN GetFullyQualifiedName(GetMessageType(f)) ELSE f.type

\* msgs.Input / msgs.Output: JSON name -> type description
FieldMap(m) ==
    [n \in {GetFields(m)[i].name : i \in 1..Len(GetFields(m))} |->
        TypeName(GetFields(m)[CHOOSE i \in 1..Len(GetFields(m)) : GetFields(m)[i].name = n])]

\* writeJSON(cmd.OutOrStdout(), msgs)
Json(m) == [t |-> "json", v |-> [Input |-> FieldMap(m.inType), Output |-> FieldMap(m.outType)]]

ShowMessagesResolve ==
    /\ pc = "sm_resolve"
    /\ \E r \in ResolveOutcomes(serviceName) :
         LET tr == Append(trace, Event("ResolveService", serviceName, r))
             serviceParts == Split(methodName, ".")
         IN  IF r.ok
             THEN LET m == FindMethodByName(r.val, serviceParts[Len(serviceParts)])
                  IN  /\ svcDesc' = r.val
                      /\ UNCHANGED err
                      /\ IF m = NilMethod
                         THEN \* m.GetInputType() on a nil *MethodDescriptor
                              /\ Return(Panic, tr)
                              /\ UNCHANGED <<mDesc, out>>
                         ELSE /\ mDesc' = m
                              /\ out' = Append(out, Json(m))
                              /\ Return(Ok, tr)
             ELSE /\ ResolveFailed(r.val, tr, "sm_list")
                  /\ UNCHANGED mDesc
    /\ UNCHANGED <<inputVars, ctxDone, gRPCAddr, serviceName, methodName, services, svcIdx,
                   walkVars, errVars, onceVars>>

ShowMessagesNotFound ==
    /\ pc = "sm_list"
    /\ NotFoundRecovery

-----------------------------------------------------------------------------
(* dynamicInspect up to the method signature *)

\* "if serviceName == "" { services, err := c.ListServices() ..."
InspectListAll ==
    /\ pc = "in_list"
    /\ \E r \in ListOutcomes :
         LET tr == Append(trace, Event("ListServices", <<>>, r))
         IN  IF ~r.ok
             THEN /\ Return(Err("listFailed", r.val), tr)
                  /\ UNCHANGED <<services, svcIdx>>
             ELSE /\ services' = r.val
                  /\ IF r.val = <<>>
                     THEN Return(Ok, tr) /\ UNCHANGED svcIdx
                     ELSE /\ svcIdx' = 1
                          /\ pc' = "in_loop"
                          /\ trace' = tr
                          /\ UNCHANGED <<conn, client, deferred, result>>
    /\ UNCHANGED <<inputVars, ctxDone, gRPCAddr, serviceName, methodName, err, svcDesc, mDesc,
                   out, walkVars, errVars, onceVars>>

\* one iteration of "for _, svc := range services"
InspectLoop ==
    /\ pc = "in_loop"
    /\ \E r \in ResolveOutcomes(services[svcIdx]) :
         LET tr == Append(trace, Event("ResolveService", services[svcIdx], r))
         IN  IF ~r.ok
             THEN \* svcDesc.GetFullyQualifiedName() on a nil *ServiceDescriptor
                  /\ Return(Panic, tr)
                  /\ err' = r.val
                  /\ UNCHANGED <<svcDesc, svcIdx, out>>
             ELSE /\ svcDesc' = r.val
                  /\ out' = Fprintln(out, Str(r.val.fqn))
                  /\ UNCHANGED err
                  /\ IF svcIdx = Len(services)
                     THEN Return(Ok, tr) /\ UNCHANGED svcIdx
                     ELSE /\ svcIdx' = svcIdx + 1
                          /\ trace' = tr
                          /\ UNCHANGED <<pc, conn, client, deferred, result>>
    /\ UNCHANGED <<inputVars, ctxDone, gRPCAddr, serviceName, methodName, services, mDesc,
                   walkVars, errVars, onceVars>>

\* "svcDesc, err := c.ResolveService(serviceName)" to the printed method signature
InspectResolve ==
    /\ pc = "in_resolve"
    /\ \E r \in ResolveOutcomes(serviceName), renders \in BOOLEAN :
         LET tr == Append(trace, Event("ResolveService", serviceName, r))
         IN  IF ~r.ok
             THEN \* svcDesc.GetFullyQualifiedName() on a nil *ServiceDescriptor
                  /\ Return(Panic, tr)
                  /\ err' = r.val
                  /\ UNCHANGED <<svcDesc, mDesc, out>>
             ELSE /\ svcDesc' = r.val
                  /\ UNCHANGED err
                  /\ IF methodName = <<>>
                     THEN LET sd  == [kind |-> "service", fqn |-> r.val.fqn]
                              trp == Append(tr, Render(sd, renders))
                          IN  /\ UNCHANGED mDesc
                              /\ IF renders
                                 THEN /\ out' = Fprintln(out, Proto(sd))
                                      /\ Return(Ok, trp)
                                 ELSE /\ Return(Err("render", r.val.fqn), trp)
                                      /\ UNCHANGED out
                     ELSE LET m == FindMethodByName(r.val, methodName)
                          IN  IF m = NilMethod
                              THEN /\ Return(Err("noMethod", methodName), tr)
                                   /\ UNCHANGED <<mDesc, out>>
                              ELSE LET md  == [kind |-> "method", fqn |-> m.name]
                                       trp == Append(tr, Render(md, renders))
                                   IN  /\ mDesc' = m
                                       /\ IF renders
                                          THEN /\ out' = Fprintln(out, Proto(md))
                                               /\ pc' = "inType"
                                               /\ trace' = trp
                                               /\ UNCHANGED <<conn, client, deferred, result>>
                                          ELSE /\ Return(Err("render", m.name), trp)
                                               /\ UNCHANGED out
    /\ UNCHANGED <<inputVars, ctxDone, gRPCAddr, serviceName, methodName, services, svcIdx,
                   walkVars, errVars, onceVars>>

-----------------------------------------------------------------------------
(* One invocation of a dynamic command *)

\* cobra.RangeArgs(0, 1), cobra.RangeArgs(1, 2), cobra.ExactArgs(0)
ArgCounts(c) ==
    IF c = "list-services" THEN 0..1
    ELSE IF c = "inspect" THEN {0}
    ELSE 1..2

Init ==
    /\ cmdName \in Commands
    /\ \E n \in ArgCounts(cmdName) : args \in [1..n -> ArgChoices]
    /\ addrFlag \in {"", Addr}
    /\ serviceFlag \in (IF cmdName = "inspect" THEN {<<>>, SvcAlpha, SvcAbsent} ELSE {<<>>})
    /\ methodFlag \in (IF cmdName = "inspect" THEN {<<>>, MGet, MNope} ELSE {<<>>})
    /\ chains \in RegistryChoices
    /\ ctxDone = FALSE
    /\ pc = "start"
    /\ gRPCAddr = "" /\ serviceName = <<>> /\ methodName = <<>>
    /\ err = Ok
    /\ services = <<>> /\ svcIdx = 0
    /\ svcDesc = Nil /\ mDesc = NilMethod
    /\ conn = "none" /\ client = "none" /\ deferred = <<>>
    /\ out = <<>>
    /\ result = Ok
    /\ trace = <<>>
    /\ fields = CatalogFields
    /\ s = <<>> /\ stack = <<>> /\ walkRet = "" /\ walked = <<>>
    /\ expanded = [m \in Msgs |-> 0]
    /\ errOrder = <<>> /\ errMsg = <<>>
    /\ NewModule

Next ==
    \/ ListServicesRunE \/ ListMethodsRunE \/ ShowMessagesRunE \/ InspectRunE
    \/ Cancel
    \/ dialGRPC \/ NewClient
    \/ ListServicesCall
    \/ ListMethodsResolve \/ ListMethodsNotFound
    \/ ShowMessagesSplit \/ ShowMessagesResolve \/ ShowMessagesNotFound
    \/ InspectListAll \/ InspectLoop \/ InspectResolve
    \/ InspectInType \/ WalkField \/ WalkReturn \/ InspectOutType \/ InspectPrint

Spec == Init /\ [][Next]_vars

-----------------------------------------------------------------------------
(* Claims about the commands *)

IsNetworkCall(e) == e.ev \in {"dial", "ListServices", "ResolveService"}
IsDial(e) == e.ev = "dial"

\* the dial and reflection calls of the invocation so far, in order
NetEvents == SelectSeq(trace, IsNetworkCall)
Dials     == SelectSeq(trace, IsDial)

TargetCommands == {"list-services", "list-methods", "show-messages"}

\* the number of positional arguments a command takes besides CHAIN_ID
OtherArgs == IF cmdName = "list-services" THEN 0 ELSE 1

ChainGiven == Len(args) > OtherArgs
AddrGiven  == addrFlag # ""

\* C1: list-services, list-methods and show-messages given both a chain
\* identifier and --address, or neither, return the "must provide exactly one
\* of CHAIN_ID or --address" error, write nothing, and make no dial or
\* reflection call.
C1_AmbiguousTargetRejected ==
    (cmdName \in TargetCommands /\ (AddrGiven <=> ChainGiven)) =>
        /\ NetEvents = <<>>
        /\ out = <<>>
        /\ pc \in {"start", "done"}
        /\ pc = "done" => result.kind = "exactlyOne"

\* list-methods was given CHAIN_ID, SERVICE and --address, and has returned
C1_Witness ==
    /\ pc = "done"
    /\ cmdName = "list-methods"
    /\ Len(args) = 2 /\ addrFlag = Addr
    /\ result.kind = "exactlyOne"

HasNoDot(str) == \A i \in 1..Len(str) : str[i] # "."

\* the service part of a qualified method name: what precedes its last "."
IsServicePartOf(svc, q) ==
    \E k \in 1..Len(q) :
        /\ q[k] = "."
        /\ svc = SubSeq(q, 1, k - 1)
        /\ HasNoDot(SubSeq(q, k + 1, Len(q)))

\* C5: in list-methods and show-messages, when resolving the service failed
\* with "Service not found" and the list-services call that followed on the
\* same client succeeded, the command returns GRPCServiceNotFoundError with
\* Requested the service name that was resolved and Available exactly what
\* that list-services call returned.
C5_NotFoundListsFreshServices ==
    (/\ cmdName \in {"list-methods", "show-messages"}
     /\ pc = "done"
     /\ Len(NetEvents) = 3
     /\ NetEvents[2].ev = "ResolveService"
     /\ ~NetEvents[2].res.ok
     /\ NetEvents[2].res.val.kind = "ServiceNotFound"
     /\ NetEvents[3].ev = "ListServices"
     /\ NetEvents[3].res.ok)
    => /\ result.kind = "GRPCServiceNotFoundError"
       /\ result.Requested = NetEvents[2].arg
       /\ result.Available = NetEvents[3].res.val
       /\ cmdName = "list-methods" => result.Requested = args[Len(args)]
       /\ cmdName = "show-messages" => IsServicePartOf(result.Requested, args[Len(args)])

\* show-messages did not find the service and reports the two services, in
\* the order the follow-up call listed them
C5_Witness ==
    /\ pc = "done"
    /\ cmdName = "show-messages"
    /\ result.kind = "GRPCServiceNotFoundError"
    /\ result.Available = <<SvcReflect, SvcAlpha>>

DialSucceeded == \E i \in 1..Len(trace) : trace[i].ev = "dial" /\ trace[i].res.ok

Count(ev) == Cardinality({i \in 1..Len(trace) : trace[i].ev = ev})

\* C6: when a dynamic operation whose dial succeeded has ended - normally,
\* with an error, or after the caller's context was cancelled - the
\* connection is closed and the reflection client, if one was created, is
\* reset; the client is released before the connection, and nothing is
\* called after the release.
C6_ResourcesReleased ==
    (pc = "done" /\ DialSucceeded) =>
        /\ conn = "closed"
        /\ client \in {"none", "reset"}
        /\ Count("conn.Close") = 1
        /\ trace[Len(trace)].ev = "conn.Close"
        /\ client = "reset" =>
              /\ Count("c.Reset") = 1
              /\ trace[Len(trace) - 1].ev = "c.Reset"

\* inspect ended with an error after the context was cancelled, client and
\* connection released
C6_Witness ==
    /\ pc = "done"
    /\ cmdName = "inspect"
    /\ ctxDone
    /\ result.kind = "listFailed"
    /\ client = "reset" /\ conn = "closed"

\* C7: show-messages rejects a qualified method name without a namespace
\* separator with the "invalid method" error before any dial attempt.
C7_InvalidMethodBeforeDial ==
    (/\ cmdName = "show-messages"
     /\ pc # "start"
     /\ gRPCAddr # ""
     /\ HasNoDot(methodName))
    => /\ Dials = <<>>
       /\ pc = "done" => result.kind = "invalidMethod"

\* C9: given a chain identifier and no --address, a command returns
\* ChainNotFoundError naming the identifier when the registry has no entry for
\* it, the "no gRPC address set for chain" error when the entry's address is
\* empty, in both cases without dialling; otherwise its one dial targets the
\* registry entry's address.
C9_ChainTargetResolution ==
    (cmdName \in TargetCommands /\ ~AddrGiven /\ ChainGiven) =>
        LET id == args[1]
        IN  IF id \notin DOMAIN chains
            THEN /\ Dials = <<>>
                 /\ pc \in {"start", "done"}
                 /\ pc = "done" => (result.kind = "ChainNotFoundError" /\ result.arg = id)
            ELSE IF chains[id].GRPCAddr = ""
            THEN /\ Dials = <<>>
                 /\ pc \in {"start", "done"}
                 /\ pc = "done" => (result.kind = "noGRPCAddr" /\ result.arg = id)
            ELSE /\ Len(Dials) <= 1
                 /\ \A i \in 1..Len(Dials) : Dials[i].arg = chains[id].GRPCAddr
                 /\ pc \notin {"start", "dial"} => Len(Dials) = 1

\* list-methods hub p.A has ended after its one dial, to the registry's address
C9_Witness ==
    /\ pc = "done"
    /\ cmdName = "list-methods"
    /\ args = <<Hub, SvcAlpha>> /\ addrFlag = ""
    /\ Len(Dials) = 1
    /\ Dials[1].arg = HubAddr
    /\ Dials[1].res.ok

\* one name per line
Lines(names) ==
    [i \in 1..(2 * Len(names)) |-> IF i % 2 = 1 THEN Str(names[(i + 1) \div 2]) ELSE NL]

\* C10: on success list-services writes exactly the names the list call
\* returned, one per line, in the returned order, and list-methods writes
\* exactly the method names of the resolved service, one per line, in
\* declaration order.
C10_ListOutputPreservesOrder ==
    (pc = "done" /\ result.kind = "nil") =>
        /\ cmdName = "list-services" => out = Lines(NetEvents[2].res.val)
        /\ cmdName = "list-methods" =>
              /\ out = Lines([i \in 1..Len(NetEvents[2].res.val.methods) |->
                                 NetEvents[2].res.val.methods[i].name])
              /\ NetEvents[2].arg = SvcAlpha =>
                    out = <<Str(MGet), NL, Str(MPut), NL, Str(MDelete), NL>>

\* list-services has written the two names in the order returned, which is
\* not the sorted one
C10_Witness ==
    /\ pc = "done"
    /\ cmdName = "list-services"
    /\ result.kind = "nil"
    /\ out = <<Str(SvcReflect), NL, Str(SvcAlpha), NL>>

\* the method part of a qualified method name: what follows its last "."
MethodPart(q) == Split(q, ".")[Len(Split(q, "."))]

\* show-messages has resolved the service, which has no method of the
\* requested name
AbsentMethodRequested ==
    /\ cmdName = "show-messages"
    /\ svcDesc # Nil
    /\ FindMethodByName(svcDesc, MethodPart(methodName)) = NilMethod

\* C11: show-messages, once the service is resolved and has no method of the
\* requested name, returns an error to its caller, does not panic on the
\* absent method descriptor, and writes no summary.
C11_AbsentMethodIsAnError ==
    (pc = "done" /\ AbsentMethodRequested) =>
        /\ result.kind \notin {"panic", "nil"}
        /\ out = <<>>

-----------------------------------------------------------------------------
(* Claims about the full inspect listing *)

\* the input and output type of the inspected method, input first
MethodRoots == <<mDesc.inType, mDesc.outType>>

\* C12: in a full inspect the accumulator handed to sources.Print holds every
\* message and enum type reachable through fields from the input type or from
\* the output type, whether or not the input or output type itself could be
\* rendered.
C12_ListingCoversBothRoots ==
    (WalkFinished /\ mDesc.inType # "" /\ mDesc.outType # "") =>
        Reachable(MethodRoots) \subseteq Names(s)

IsRender(e)   == e.ev = "PrintProtoToString"
RenderedOk(e) == e.ev = "PrintProtoToString" /\ e.res.ok
IsProto(x)    == x.t = "proto"

\* the descriptors handed to the printer so far, and those it rendered
Attempted == [i \in 1..Len(SelectSeq(trace, IsRender)) |-> SelectSeq(trace, IsRender)[i].arg]
Succeeded == [i \in 1..Len(SelectSeq(trace, RenderedOk)) |-> SelectSeq(trace, RenderedOk)[i].arg]

\* the descriptors whose text was written to the output stream
Printed == [i \in 1..Len(SelectSeq(out, IsProto)) |-> SelectSeq(out, IsProto)[i].v]

\* the listing of a full inspect: the method signature, the input type, the
\* output type, then the types referenced from the two
Listing ==
    <<[kind |-> "method", fqn |-> mDesc.name], MsgDesc(mDesc.inType), MsgDesc(mDesc.outType)>>
    \o DFSRoots(MethodRoots, <<>>)

SameDescriptors(a, b) ==
    /\ Len(a) = Len(b)
    /\ \A i \in 1..Len(a) : a[i].kind = b[i].kind /\ a[i].fqn = b[i].fqn

FullInspect == cmdName = "inspect" /\ mDesc # NilMethod

\* C14: a full inspect that found its method never returns a rendering
\* error; it hands every descriptor of the listing to the printer, in listing
\* order, and writes exactly those whose rendering succeeded, in that order.
C14_RenderFailureSkipsOneDescriptor ==
    (pc = "done" /\ FullInspect) =>
        /\ result.kind # "render"
        /\ SameDescriptors(Attempted, Listing)
        /\ SameDescriptors(Printed, Succeeded)

-----------------------------------------------------------------------------
(* Claims about the not-found recovery *)

\* the i-th call was a ResolveService that failed with "Service not found"
\* and the next one a ListServices that failed too
RecoveryFailedAt(i) ==
    /\ NetEvents[i].ev = "ResolveService"
    /\ ~NetEvents[i].res.ok
    /\ IsServiceNotFound(NetEvents[i].res.val)
    /\ NetEvents[i + 1].ev = "ListServices"
    /\ ~NetEvents[i + 1].res.ok

\* C13: in list-methods and show-messages, when ResolveService failed with
\* "Service not found" and the ListServices call that followed failed too, the
\* command has returned "failed to resolve service" wrapping the error of
\* ResolveService, not that of ListServices and not a
\* GRPCServiceNotFoundError, and the failed ListServices is its last call.
C13_RecoveryFailureKeepsResolveError ==
    cmdName \in {"list-methods", "show-messages"} =>
        \A i \in 1..(Len(NetEvents) - 1) :
            RecoveryFailedAt(i) =>
                /\ Len(NetEvents) = i + 1
                /\ pc = "done"
                /\ result.kind = "resolveFailed"
                /\ result.arg = NetEvents[i].res.val
                /\ result.arg # NetEvents[i + 1].res.val

\* show-messages has returned after a "Service not found" and a failed
\* ListServices
C13_Witness ==
    /\ pc = "done"
    /\ cmdName = "show-messages"
    /\ Len(NetEvents) = 3
    /\ RecoveryFailedAt(2)
    /\ result.kind = "resolveFailed"
    /\ result.arg.kind = "ServiceNotFound"

-----------------------------------------------------------------------------
(* Claims about inspect: target and service resolution *)

\* C15: inspect invoked without --address returns the "must provide exactly
\* one of CHAIN_ID or --address" error and never dials; whenever inspect
\* dials, it dials a non-empty address.
C15_InspectTargetContract ==
    cmdName = "inspect" =>
        /\ \A i \in 1..Len(Dials) : Dials[i].arg # ""
        /\ addrFlag = "" =>
              /\ Dials = <<>>
              /\ pc = "done" => result.kind = "exactlyOne"

IsResolve(e)  == e.ev = "ResolveService"
ResolvedOk(e) == e.ev = "ResolveService" /\ e.res.ok

\* the ResolveService calls of the invocation so far, in order
ResolveEvents == SelectSeq(trace, IsResolve)

\* the names ResolveService was called with, and those it resolved
ResolveRequests == [i \in 1..Len(ResolveEvents) |-> ResolveEvents[i].arg]
ResolvedNames ==
    [i \in 1..Len(SelectSeq(trace, ResolvedOk)) |-> SelectSeq(trace, ResolvedOk)[i].arg]

\* inspect was given no service and its ListServices call succeeded
ListedAll ==
    /\ serviceName = <<>>
    /\ Len(NetEvents) >= 2
    /\ NetEvents[2].ev = "ListServices"
    /\ NetEvents[2].res.ok

\* C16: inspect never panics on a failed ResolveService: for a named service
\* it returns the error of ResolveService; in the list-all mode it resolves
\* every listed service, writes the names of those that resolved, in order,
\* and returns no error.
C16_ResolveFailureHandled ==
    (cmdName = "inspect" /\ pc = "done") =>
        /\ result.kind # "panic"
        /\ (serviceName # <<>> /\ Len(ResolveEvents) = 1 /\ ~ResolveEvents[1].res.ok) =>
              /\ result.kind = ResolveEvents[1].res.val.kind
              /\ result.arg = ResolveEvents[1].res.val.arg
        /\ ListedAll =>
              /\ ResolveRequests = services
              /\ out = Lines(ResolvedNames)
              /\ result.kind = "nil"

-----------------------------------------------------------------------------
(* byop.Module.RegisterInterfaces: m.registerOnce.Do(func() { ... }),       *)
(* sync.Once.Do step by step, one goroutine per call                       *)

\* every copy of the Module has a sync.Once of its own
RegisterOncePerCopy(g) == g

\* m.registerOnce of the receiver of call g: Module is passed by value, the
\* field is a pointer, so every copy points at the Once NewModule allocated
RegisterOnce(g) == SharedOnce

\* "func (m Module) RegisterInterfaces(registry types.InterfaceRegistry)" is
\* called on goroutine g with a registry
CallRegisterInterfaces(g) ==
    /\ opc[g] = "idle"
    /\ \E r \in Registries : registryOf' = [registryOf EXCEPT ![g] = r]
    /\ opc' = [opc EXCEPT ![g] = "load"]
    /\ UNCHANGED <<cmdVars, done, mutex, panicked, registered, implementations>>

\* Once.Do: "if o.done.Load() == 0 { o.doSlow(f) }"
OnceDo(g) ==
    /\ opc[g] = "load"
    /\ opc' = [opc EXCEPT ![g] = IF done[RegisterOnce(g)] = 0 THEN "lock" ELSE "returned"]
    /\ UNCHANGED <<cmdVars, done, mutex, registryOf, panicked, registered, implementations>>

\* doSlow: "o.m.Lock(); defer o.m.Unlock()"
OnceLock(g) ==
    /\ opc[g] = "lock"
    /\ mutex[RegisterOnce(g)] = 0
    /\ mutex' = [mutex EXCEPT ![RegisterOnce(g)] = g]
    /\ opc' = [opc EXCEPT ![g] = "check"]
    /\ UNCHANGED <<cmdVars, done, registryOf, panicked, registered, implementations>>

\* doSlow: "if o.done.Load() == 0 { defer o.done.Store(1); f() }": f is
\* entered, that is registry.RegisterImplementations is invoked
OnceCheck(g) ==
    /\ opc[g] = "check"
    /\ IF done[RegisterOnce(g)] = 0
       THEN /\ registered' = Append(registered, [by |-> g, registry |-> registryOf[g]])
            /\ opc' = [opc EXCEPT ![g] = "f"]
       ELSE /\ opc' = [opc EXCEPT ![g] = "unlock"]
            /\ UNCHANGED registered
    /\ UNCHANGED <<cmdVars, done, mutex, registryOf, panicked, implementations>>

\* "registry.RegisterImplementations((*sdk.Msg)(nil), m.msgs...)" returns,
\* or panics (the registry rejects a message); the deferred Store runs
RegisterImplementations(g) ==
    /\ opc[g] = "f"
    /\ \E panics \in BOOLEAN :
         IF panics
         THEN /\ panicked' = panicked \cup {g}
              /\ UNCHANGED implementations
         ELSE /\ implementations' =
                    [implementations EXCEPT ![registryOf[g]] = @ \cup Messages]
              /\ UNCHANGED panicked
    /\ done' = [done EXCEPT ![RegisterOnce(g)] = 1]
    /\ opc' = [opc EXCEPT ![g] = "unlock"]
    /\ UNCHANGED <<cmdVars, mutex, registryOf, registered>>

\* the deferred "o.m.Unlock()", then RegisterInterfaces returns, or the
\* panic of f goes on to the caller
OnceUnlock(g) ==
    /\ opc[g] = "unlock"
    /\ mutex' = [mutex EXCEPT ![RegisterOnce(g)] = 0]
    /\ opc' = [opc EXCEPT ![g] = IF g \in panicked THEN "panicking" ELSE "returned"]
    /\ UNCHANGED <<cmdVars, done, registryOf, panicked, registered, implementations>>

InitOnce ==
    /\ cmdName = "" /\ args = <<>> /\ addrFlag = ""
    /\ serviceFlag = <<>> /\ methodFlag = <<>>
    /\ chains = <<>>
    /\ ctxDone = FALSE
    /\ pc = "once"
    /\ gRPCAddr = "" /\ serviceName = <<>> /\ methodName = <<>>
    /\ err = Ok
    /\ services = <<>> /\ svcIdx = 0
    /\ svcDesc = Nil /\ mDesc = NilMethod
    /\ conn = "none" /\ client = "none" /\ deferred = <<>>
    /\ out = <<>>
    /\ result = Ok
    /\ trace = <<>>
    /\ fields = [n \in Msgs |-> <<>>]
    /\ s = <<>> /\ stack = <<>> /\ walkRet = "" /\ walked = <<>>
    /\ expanded = [n \in Msgs |-> 0]
    /\ errOrder = <<>> /\ errMsg = <<>>
    /\ NewModule

NextOnce ==
    \E g \in Goroutines :
        \/ CallRegisterInterfaces(g)
        \/ OnceDo(g)
        \/ OnceLock(g)
        \/ OnceCheck(g)
        \/ RegisterImplementations(g)
        \/ OnceUnlock(g)

SpecOnce == InitOnce /\ [][NextOnce]_vars

-----------------------------------------------------------------------------
(* Claims about byop.Module *)

\* a RegisterImplementations call is under way
Registering == \E g \in Goroutines : opc[g] = "f"

Returned == {g \in Goroutines : opc[g] = "returned"}

\* C17: over all RegisterInterfaces calls on a Module from NewModule and its
\* copies, RegisterImplementations is invoked at most once, with the registry
\* of the call that invokes it and before any call has returned; and once a
\* call has returned it has been invoked exactly once and is no longer
\* running.
C17_RegistersExactlyOnce ==
    /\ Len(registered) <= 1
    /\ \A i \in 1..Len(registered) : registered[i].registry = registryOf[registered[i].by]
    /\ Registering => Returned = {}
    /\ Returned # {} => (Len(registered) = 1 /\ ~Registering)
    /\ \A r \in Registries :
          implementations[r] # {} => (Len(registered) = 1 /\ registered[1].registry = r)

\* all the calls, made on two different registries, have returned after the
\* one registration, which filled the registry of the call that ran it
C17_Witness ==
    /\ Returned = Goroutines
    /\ \E g, h \in Goroutines : registryOf[g] # registryOf[h]
    /\ Len(registered) = 1
    /\ implementations[registered[1].registry] = Messages

=============================================================================
